---- MODULE Spec2Model ----
(***************************************************************************)
(* A model of the SVG-to-page converter (drawSvg and its helpers).         *)
(*                                                                         *)
(* Numbers.  JavaScript numbers are modelled as exact fixed-point values:  *)
(* the integer n stands for the number n / Unit.  Unit is the least common *)
(* multiple of 1..4, so that every quotient the clipper forms on the       *)
(* bounded input grid is exact.  Floating-point rounding is not modelled.  *)
(***************************************************************************)
EXTENDS Integers, Sequences, FiniteSets, TLC

VARIABLES
  pc,         \* position of the operation under way
  svgRect,    \* the target rectangle (drawSvg line 892)
  element,    \* the resolved element handed to a runner
  line,       \* local `line` of runnersToPage.line (result of getInnerSegment)
  calls,      \* the draw calls made on the page, in order
  node,       \* parseAttributes: the element being resolved
  inherited,  \* parseAttributes: the InheritedAttributes it is given
  converter,  \* parseAttributes: the converter it is given
  parsed,     \* parseAttributes: its result
  svg,        \* drawSvg: the parsed markup, its nodes in document order
  options,    \* drawSvg: the options it is given
  elements,   \* drawSvg: the resolved elements parse returns
  pending,    \* the image elements whose embedPng has not settled yet
  status,     \* the state of the promise drawSvg returned
  rejected,   \* the image elements whose runner's promise was rejected
  fitArgs,    \* getFittingRectangle: its arguments
  fitted,     \* getFittingRectangle: its result
  currentPoint, \* runnersToPage.path: local `currentPoint`
  newPath     \* runnersToPage.path: the rewritten commands made so far

clipVars == <<svgRect, element, line>>
attrVars == <<node, inherited, converter, parsed>>
drawVars == <<svg, options, elements, pending, status, rejected>>
fitVars == <<fitArgs, fitted>>
pathVars == <<currentPoint, newPath>>
vars == <<pc, calls, clipVars, attrVars, drawVars, fitVars, pathVars>>

----------------------------------------------------------------------------
(* Bounds of the model. *)

\* Grid coordinates of line endpoints and rectangle corners range over 0..MaxCoord.
MaxCoord == 3

----------------------------------------------------------------------------
(* Numbers *)

Unit == 2 * 2 * 3

Abs(n) == IF n < 0 THEN -n ELSE n
Min(a, b) == IF a <= b THEN a ELSE b
Max(a, b) == IF a >= b THEN a ELSE b

\* n / d for d # 0 (exact on every input the model forms).
Quot(n, d) == IF d > 0 THEN n \div d ELSE (-n) \div (-d)

\* The value absent in JavaScript (undefined).
Undefined == [undefined |-> TRUE]

\* A number, colour or enum value that may be undefined: <<>> is undefined,
\* <<v>> is the value v.
None == <<>>
Some(v) == <<v>>
Val(o) == o[1]

\* a * b and a / b on fixed-point numbers
Mul(a, b) == (a * b) \div Unit
Div(a, b) == Quot(a * Unit, b)

----------------------------------------------------------------------------
(* Geometry helpers (src/utils/elements, src/utils/maths,                  *)
(* src/utils/intersections).                                               *)

Point(x, y) == [x |-> x, y |-> y]
Segment(a, b) == [A |-> a, B |-> b]
Rectangle(start, end) == [start |-> start, end |-> end]

\* The point of the (filled) rectangle nearest to P.
orthoProjection(rect, P) ==
  LET xmin == Min(rect.start.x, rect.end.x)
      xmax == Max(rect.start.x, rect.end.x)
      ymin == Min(rect.start.y, rect.end.y)
      ymax == Max(rect.start.y, rect.end.y)
  IN  Point(Max(xmin, Min(xmax, P.x)), Max(ymin, Min(ymax, P.y)))

\* Distances are compared through their squares (in units of 1/Unit^2):
\* d1 = 0 iff d1^2 = 0, and d1 - d2 has the sign of d1^2 - d2^2.
distance(p, q) == (p.x - q.x) * (p.x - q.x) + (p.y - q.y) * (p.y - q.y)
distanceCoords(p, q) == distance(p, q)
isEqual(a, b) == a = b

\* Intersection of the segment with the horizontal edge y = c, xlo <= x <= xhi.
\* Parallel (also collinear) lines have no intersection point.
intersectHorizontal(seg, c, xlo, xhi) ==
  IF seg.A.y = seg.B.y THEN <<>>
  ELSE IF c < Min(seg.A.y, seg.B.y) \/ c > Max(seg.A.y, seg.B.y) THEN <<>>
  ELSE LET x == seg.A.x + Quot((c - seg.A.y) * (seg.B.x - seg.A.x), seg.B.y - seg.A.y)
       IN  IF xlo <= x /\ x <= xhi THEN <<Point(x, c)>> ELSE <<>>

\* Intersection of the segment with the vertical edge x = c, ylo <= y <= yhi.
intersectVertical(seg, c, ylo, yhi) ==
  IF seg.A.x = seg.B.x THEN <<>>
  ELSE IF c < Min(seg.A.x, seg.B.x) \/ c > Max(seg.A.x, seg.B.x) THEN <<>>
  ELSE LET y == seg.A.y + Quot((c - seg.A.x) * (seg.B.y - seg.A.y), seg.B.x - seg.A.x)
       IN  IF ylo <= y /\ y <= yhi THEN <<Point(c, y)>> ELSE <<>>

\* getIntersections([rect, line]): the points the segment shares with each of
\* the four edges of the rectangle (a corner hit is listed once per edge).
getIntersections(rect, seg) ==
  LET xmin == Min(rect.start.x, rect.end.x)
      xmax == Max(rect.start.x, rect.end.x)
      ymin == Min(rect.start.y, rect.end.y)
      ymax == Max(rect.start.y, rect.end.y)
  IN  intersectHorizontal(seg, ymax, xmin, xmax)
        \o intersectVertical(seg, xmax, ymin, ymax)
        \o intersectHorizontal(seg, ymin, xmin, xmax)
        \o intersectVertical(seg, xmin, ymin, ymax)

----------------------------------------------------------------------------
(* The clipper *)

isCoordinateInsideTheRect(dot, rect) ==
  isEqual(0, distance(dot, orthoProjection(rect, dot)))

\* Array.prototype.sort with the comparator
\*   (p1, p2) => distanceCoords(ref, p1) - distanceCoords(ref, p2)
\* (stable: equal keys keep their order).
RECURSIVE sortByDistance(_, _)
sortByDistance(seq, ref) ==
  IF Len(seq) <= 1 THEN seq
  ELSE LET rest == sortByDistance(Tail(seq), ref)
           h == Head(seq)
           \* h goes before the first element of rest that is strictly farther
           RECURSIVE insert(_)
           insert(s) ==
             IF s = <<>> THEN <<h>>
             ELSE IF distanceCoords(ref, h) <= distanceCoords(ref, Head(s))
                  THEN <<h>> \o s
                  ELSE <<Head(s)>> \o insert(Tail(s))
       IN  insert(rest)

\* Mutant: the early return for a segment already inside is missing.
getInnerSegmentNoEarlyReturn(start, end, rect) ==
  LET isStartInside == isCoordinateInsideTheRect(start, rect)
      isEndInside == isCoordinateInsideTheRect(end, rect)
      intersection == getIntersections(rect, Segment(start, end))
      sorted1 == IF ~isStartInside THEN sortByDistance(intersection, start) ELSE intersection
      sorted2 == IF ~isEndInside THEN sortByDistance(sorted1, end) ELSE sorted1
  IN  IF Len(intersection) = 0 THEN Undefined
      ELSE Segment(IF ~isStartInside THEN sorted1[1] ELSE start,
                   IF ~isEndInside THEN sorted2[1] ELSE end)

\* Mutant: a segment without intersection is returned whole.
getInnerSegmentKeepsOutside(start, end, rect) ==
  LET isStartInside == isCoordinateInsideTheRect(start, rect)
      isEndInside == isCoordinateInsideTheRect(end, rect)
      intersection == getIntersections(rect, Segment(start, end))
      sorted1 == IF ~isStartInside THEN sortByDistance(intersection, start) ELSE intersection
      sorted2 == IF ~isEndInside THEN sortByDistance(sorted1, end) ELSE sorted1
  IN  IF isEndInside /\ isStartInside THEN Segment(start, end)
      ELSE IF Len(intersection) = 0 THEN Segment(start, end)
      ELSE Segment(IF ~isStartInside THEN sorted1[1] ELSE start,
                   IF ~isEndInside THEN sorted2[1] ELSE end)

\* Mutant: the end point is replaced by the intersection nearest to the start
\* (the second sort is missing).
getInnerSegmentOneSort(start, end, rect) ==
  LET isStartInside == isCoordinateInsideTheRect(start, rect)
      isEndInside == isCoordinateInsideTheRect(end, rect)
      intersection == getIntersections(rect, Segment(start, end))
      sorted1 == sortByDistance(intersection, start)
  IN  IF isEndInside /\ isStartInside THEN Segment(start, end)
      ELSE IF Len(intersection) = 0 THEN Undefined
      ELSE Segment(IF ~isStartInside THEN sorted1[1] ELSE start,
                   IF ~isEndInside THEN sorted1[1] ELSE end)

getInnerSegment(start, end, rect) ==
  LET isStartInside == isCoordinateInsideTheRect(start, rect)
      isEndInside == isCoordinateInsideTheRect(end, rect)
      intersection == getIntersections(rect, Segment(start, end))
      \* the array is sorted in place: the second sort starts from the first's order
      sorted1 == IF ~isStartInside THEN sortByDistance(intersection, start) ELSE intersection
      sorted2 == IF ~isEndInside THEN sortByDistance(sorted1, end) ELSE sorted1
  IN  IF isEndInside /\ isStartInside THEN Segment(start, end)
      ELSE IF Len(intersection) = 0 THEN Undefined
      ELSE Segment(IF ~isStartInside THEN sorted1[1] ELSE start,
                   IF ~isEndInside THEN sorted2[1] ELSE end)

----------------------------------------------------------------------------
(* runnersToPage.line *)

\* The draw calls runnersToPage(svgRect, ...).line(elt) makes on the page.
lineRunnerCalls(rect, elt) ==
  LET start == Point(Val(elt.x1), Val(elt.y1))
      end == Point(Val(elt.x2), Val(elt.y2))
      inner == getInnerSegment(start, end, rect)
  IN  IF inner = Undefined THEN <<>>
      ELSE <<[op |-> "drawLine", start |-> inner.A, end |-> inner.B]>>

----------------------------------------------------------------------------
(* Specification SpecClip: the line runner on one line element.            *)

\* The variables of the other specifications, at rest.
FitIdle == fitArgs = Undefined /\ fitted = Undefined
PathIdle == currentPoint = Undefined /\ newPath = <<>>
AttrIdle == node = Undefined /\ inherited = Undefined /\ converter = <<>> /\ parsed = Undefined
DrawIdle ==
  /\ svg = <<>> /\ options = Undefined /\ elements = <<>>
  /\ pending = {} /\ status = "none" /\ rejected = {}

GridCoords == {c * Unit : c \in 0..MaxCoord}
RectCoords == GridCoords

\* new Rectangle(new Point({x, y}), new Point({x: x + width, y: y - height}))
\* with width, height > 0.
GridRects ==
  {Rectangle(Point(x, y), Point(x2, y2)) :
     <<x, y, x2, y2>> \in {q \in RectCoords \X RectCoords \X RectCoords \X RectCoords :
                              q[1] < q[3] /\ q[2] > q[4]}}

LineElement(x1, y1, x2, y2) ==
  [tagName |-> "line", x1 |-> Some(x1), y1 |-> Some(y1), x2 |-> Some(x2), y2 |-> Some(y2)]

\* <line x1="0" y1="0" x2="1000" y2="0"/> against a rectangle of width 50.
ExampleLine == LineElement(0, 0, 1000 * Unit, 0)
ExampleRects ==
  {Rectangle(Point(0, y), Point(50 * Unit, y - 50 * Unit)) : y \in {0, 25 * Unit, 50 * Unit}}

InitClip ==
  /\ pc = "line"
  /\ \/ /\ svgRect \in GridRects
        /\ element \in {LineElement(c[1], c[2], c[3], c[4]) :
                          c \in GridCoords \X GridCoords \X GridCoords \X GridCoords}
     \/ /\ svgRect \in ExampleRects
        /\ element = ExampleLine
  /\ line = Undefined
  /\ calls = <<>>
  /\ AttrIdle
  /\ DrawIdle
  /\ FitIdle
  /\ PathIdle

LineRunner ==
  /\ pc = "line"
  /\ line' = getInnerSegment(Point(Val(element.x1), Val(element.y1)),
                             Point(Val(element.x2), Val(element.y2)), svgRect)
  /\ calls' = calls \o lineRunnerCalls(svgRect, element)
  /\ pc' = "done"
  /\ UNCHANGED <<svgRect, element, attrVars, drawVars, fitVars, pathVars>>

NextClip == LineRunner

SpecClip == InitClip /\ [][NextClip]_vars

----------------------------------------------------------------------------
(* Properties of the clipper *)

lineStart == Point(Val(element.x1), Val(element.y1))
lineEnd == Point(Val(element.x2), Val(element.y2))
StartInside == isCoordinateInsideTheRect(lineStart, svgRect)
EndInside == isCoordinateInsideTheRect(lineEnd, svgRect)
Crossings == getIntersections(svgRect, Segment(lineStart, lineEnd))
CrossingSet == {Crossings[i] : i \in DOMAIN Crossings}

\* C3: a segment whose two endpoints both lie in the rectangle is returned
\* with exactly the same start and end (and drawn as such).
C3_ContainedUnchanged ==
  (pc = "done" /\ StartInside /\ EndInside) =>
     /\ line = Segment(lineStart, lineEnd)
     /\ calls = <<[op |-> "drawLine", start |-> lineStart, end |-> lineEnd]>>

C3_Witness ==
  /\ pc = "done" /\ StartInside /\ EndInside /\ lineStart # lineEnd
  /\ line = Segment(lineStart, lineEnd)

\* C4: a segment that has no intersection with the rectangle's boundary and is
\* not contained in the rectangle yields undefined, and no drawLine call.
C4_DisjointAbsent ==
  (pc = "done" /\ Crossings = <<>> /\ ~(StartInside /\ EndInside)) =>
     (line = Undefined /\ calls = <<>>)

C4_Witness ==
  /\ pc = "done" /\ Crossings = <<>> /\ ~StartInside /\ ~EndInside
  /\ lineStart # lineEnd /\ line = Undefined /\ calls = <<>>

\* C5: when the segment intersects the boundary, each outside endpoint is
\* replaced by the intersection point nearest to it and each inside endpoint is
\* kept; with a single intersection point the outside endpoint becomes that
\* point; the line (0,0)-(1000,0) against a rectangle of width 50 ends at x = 50.
C5_NearestIntersection ==
  (pc = "done" /\ Crossings # <<>> /\ ~(StartInside /\ EndInside)) =>
     /\ line # Undefined
     /\ StartInside => line.A = lineStart
     /\ EndInside => line.B = lineEnd
     /\ ~StartInside =>
          /\ line.A \in CrossingSet
          /\ \A p \in CrossingSet : distance(lineStart, line.A) <= distance(lineStart, p)
     /\ ~EndInside =>
          /\ line.B \in CrossingSet
          /\ \A p \in CrossingSet : distance(lineEnd, line.B) <= distance(lineEnd, p)
     /\ (Cardinality(CrossingSet) = 1 /\ ~StartInside) => {line.A} = CrossingSet
     /\ (Cardinality(CrossingSet) = 1 /\ ~EndInside) => {line.B} = CrossingSet
     /\ element = ExampleLine =>
          /\ line.B.x = 50 * Unit
          /\ calls = <<[op |-> "drawLine", start |-> lineStart,
                        end |-> Point(50 * Unit, 0)]>>

\* both endpoints outside, two distinct crossings, each end clipped to its own
C5_Witness ==
  /\ pc = "done" /\ ~StartInside /\ ~EndInside /\ Cardinality(CrossingSet) = 2
  /\ line # Undefined /\ line.A # line.B
  /\ line.A # lineStart /\ line.B # lineEnd

----------------------------------------------------------------------------
(* Strings and numbers.  Attribute values are strings; an absent attribute  *)
(* (undefined) is the empty string, which the code treats alike (both are   *)
(* falsy).  The conversions are tables over the strings the inputs use.     *)

\* a || b on strings
OrStr(a, b) == IF a # "" THEN a ELSE b

\* parseFloat (NaN is None).
parseFloat(s) ==
  CASE s = "0" -> Some(0)
    [] s = "0.25" -> Some(Unit \div 4)
    [] s = "0.5" -> Some(Unit \div 2)
    [] s = "1" -> Some(Unit)
    [] s = "2" -> Some(2 * Unit)
    [] s = "3" -> Some(3 * Unit)
    [] s = "4" -> Some(4 * Unit)
    [] s = "5" -> Some(5 * Unit)
    [] s = "10" -> Some(10 * Unit)
    [] s = "100" -> Some(100 * Unit)
    [] s = "-2" -> Some(-2 * Unit)
    [] s = "50%" -> Some(50 * Unit)
    [] OTHER -> None

\* value.endsWith('%')
endsWithPercent(s) == s \in {"50%"}

\* n + '' for the numbers the code turns into strings
numberToString(n) ==
  CASE n = 0 -> "0"
    [] n = Unit \div 4 -> "0.25"
    [] n = Unit \div 2 -> "0.5"
    [] n = Unit -> "1"
    [] n = 2 * Unit -> "2"
    [] n = 3 * Unit -> "3"
    [] n = 4 * Unit -> "4"
    [] n = 5 * Unit -> "5"
    [] n = 10 * Unit -> "10"
    [] n = 100 * Unit -> "100"

parseFloatValue(value, reference) ==
  IF value = "" THEN None
  ELSE LET v == parseFloat(value)
       IN  IF v = None THEN None
           ELSE IF endsWithPercent(value) THEN Some(Mul(Val(v), reference) \div 100)
           ELSE v

\* colorString of ./colors: the colour and the alpha of a colour string.
colorString(color) ==
  CASE color = "red" -> [rgb |-> "rgb(1,0,0)", alpha |-> Some(Unit)]
    [] color = "rgba(0,0,255,0.5)" -> [rgb |-> "rgb(0,0,1)", alpha |-> Some(Unit \div 2)]
    [] color = "rgba(0,255,0,0)" -> [rgb |-> "rgb(0,1,0)", alpha |-> Some(0)]

parseColor(color) ==
  IF color = "" THEN None
  ELSE IF color \in {"none", "transparent"} THEN None
  ELSE LET parsedColor == colorString(color)
       IN  Some([rgb |-> parsedColor.rgb,
                 alpha |-> IF parsedColor.alpha # None /\ Val(parsedColor.alpha) # 0
                           THEN numberToString(Val(parsedColor.alpha)) ELSE ""])

\* LineCapStyle and LineJoinStyle of ./operators are opaque (truthy) values.
StrokeLineCapMap ==
  [s \in {"butt", "round", "square"} |->
     CASE s = "butt" -> "Butt" [] s = "round" -> "Round" [] s = "square" -> "Projecting"]

StrokeLineJoinMap ==
  [s \in {"bevel", "miter", "round"} |->
     CASE s = "bevel" -> "Bevel" [] s = "miter" -> "Miter" [] s = "round" -> "Round"]

\* The names styleOrAttribute looks up.
StyleNames ==
  {"width", "height", "fill", "fill-opacity", "opacity", "stroke", "stroke-opacity",
   "stroke-linecap", "stroke-linejoin", "stroke-width", "font-family", "font-size"}

\* The style attribute is the sequence of its declarations <<name, value>>;
\* a later declaration of a name overwrites an earlier one.
parseStyles(style) ==
  [n \in StyleNames |->
     LET at == {i \in DOMAIN style : style[i][1] = n}
     IN  IF at = {} THEN "" ELSE style[CHOOSE i \in at : \A j \in at : j <= i][2]]

\* attributes[name]: the attributes object holds the attributes the element
\* gives; any other name yields undefined.
attr(attributes, name) == IF name \in DOMAIN attributes THEN attributes[name] ELSE ""

\* Mutant: the presentation attribute is looked up before the inline style.
styleOrAttributeAttributeFirst(attributes, style, attribute) ==
  IF attr(attributes, attribute) # "" THEN attr(attributes, attribute) ELSE style[attribute]

\* (def is '' or undefined at every call: both are the empty string here)
styleOrAttribute(attributes, style, attribute) ==
  IF style[attribute] # "" THEN style[attribute] ELSE attr(attributes, attribute)

----------------------------------------------------------------------------
(* Converters.  A converter is the chain of its closures, outermost first:  *)
(* the page converter of drawSvg, then one layer per transform applied.     *)

defaultConverter(size) == <<[name |-> "page", height |-> size.height]>>

RECURSIVE point(_, _, _)
point(conv, x, y) ==
  LET top == conv[Len(conv)]
      outer == SubSeq(conv, 1, Len(conv) - 1)
  IN  CASE top.name = "page" -> [x |-> x, y |-> top.height - y]
        [] top.name = "scale" -> point(outer, Mul(x, top.a), Mul(y, top.b))
        [] top.name = "translate" -> point(outer, x + top.a, y + top.b)

RECURSIVE size(_, _, _)
size(conv, w, h) ==
  LET top == conv[Len(conv)]
      outer == SubSeq(conv, 1, Len(conv) - 1)
  IN  CASE top.name = "page" -> [width |-> w, height |-> h]
        [] top.name = "scale" -> size(outer, Mul(w, top.a), Mul(h, top.b))
        [] top.name = "translate" -> size(outer, w, h)

\* Mutant: an unknown name falls through to the translate case.
transformFallsThrough(conv, name, args) ==
  LET a == args[1]
      b == IF Len(args) >= 2 THEN args[2] ELSE args[1]
  IN  CASE name = "scaleX" -> Append(conv, [name |-> "scale", a |-> a, b |-> 0])
        [] name = "scaleY" -> Append(conv, [name |-> "scale", a |-> 0, b |-> a])
        [] name = "scale" -> Append(conv, [name |-> "scale", a |-> a, b |-> b])
        [] name = "translateX" -> Append(conv, [name |-> "translate", a |-> a, b |-> 0])
        [] name = "translateY" -> Append(conv, [name |-> "translate", a |-> 0, b |-> a])
        [] name \notin {"scaleX", "scaleY", "scale", "translateX", "translateY",
                        "rotate", "skewX", "skewY"} ->
             Append(conv, [name |-> "translate", a |-> a, b |-> b])

\* rotate, skewX and skewY need trigonometry and are not among the inputs.
RECURSIVE transform(_, _, _)
transform(conv, name, args) ==
  CASE name = "scaleX" -> transform(conv, "scale", <<args[1], 0>>)
    [] name = "scaleY" -> transform(conv, "scale", <<0, args[1]>>)
    [] name = "scale" ->
         Append(conv, [name |-> "scale", a |-> args[1],
                       b |-> IF Len(args) >= 2 THEN args[2] ELSE args[1]])
    [] name = "translateX" -> transform(conv, "translate", <<args[1], 0>>)
    [] name = "translateY" -> transform(conv, "translate", <<0, args[1]>>)
    [] name = "translate" ->
         Append(conv, [name |-> "translate", a |-> args[1],
                       b |-> IF Len(args) >= 2 THEN args[2] ELSE args[1]])
    [] name \notin {"scaleX", "scaleY", "scale", "translateX", "translateY", "translate",
                    "rotate", "skewX", "skewY"} -> conv

Instruction(name, args) == [name |-> name, args |-> args]

\* The instructions regexTransform finds in a transform string, with their
\* arguments split and parsed.
parseTransformList(s) ==
  CASE s = "" -> <<>>
    [] s = "scale(2)" -> <<Instruction("scale", <<2 * Unit>>)>>
    [] s = "scale(2,3)" -> <<Instruction("scale", <<2 * Unit, 3 * Unit>>)>>
    [] s = "scale(0)" -> <<Instruction("scale", <<0>>)>>
    [] s = "translate(1,2)" -> <<Instruction("translate", <<Unit, 2 * Unit>>)>>
    [] s = "translate(10,10) scale(2)" ->
         <<Instruction("translate", <<10 * Unit, 10 * Unit>>), Instruction("scale", <<2 * Unit>>)>>
    [] s = "foo(1) scale(2)" ->
         <<Instruction("foo", <<Unit>>), Instruction("scale", <<2 * Unit>>)>>

\* while (parsed !== null) { newConverter = transform(newConverter, name, args) ... }
RECURSIVE applyTransforms(_, _)
applyTransforms(conv, list) ==
  IF list = <<>> THEN conv
  ELSE applyTransforms(transform(conv, Head(list).name, Head(list).args), Tail(list))

\* The transformations set as direct attributes, in the order of the forEach.
DirectTransformNames ==
  <<"translate", "translateX", "translateY", "skewX", "skewY", "rotate", "scale",
    "scaleX", "scaleY">>

\* Each direct attribute is put in front of the list built so far.
RECURSIVE prependDirect(_, _, _)
prependDirect(attributes, list, i) ==
  IF i > Len(DirectTransformNames) THEN list
  ELSE prependDirect(attributes,
                     parseTransformList(attr(attributes, DirectTransformNames[i])) \o list, i + 1)

\* The first number in the string of a direct attribute, through parseInt
\* (lines 552-566).
directNumber(s) ==
  CASE s = "" -> None
    [] s \in {"scale(2)", "scale(2,3)"} -> Some(2 * Unit)
    [] s = "scale(0)" -> Some(0)
    [] s \in {"translate(1,2)", "foo(1) scale(2)"} -> Some(Unit)
    [] s = "translate(10,10) scale(2)" -> Some(10 * Unit)

\* transformList of parseAttributes (lines 534-570); x and y are parsed numbers.
\* The numbers of the leading translate are printed and parsed back, which
\* gives back the same numbers.
transformListOf(attributes, x, y) ==
  LET direct == prependDirect(attributes, parseTransformList(attr(attributes, "transform")), 1)
      truthy(o) == o # None /\ Val(o) # 0
  IN  IF truthy(x) \/ truthy(y)
      THEN <<Instruction("translate", <<IF truthy(x) THEN Val(x) ELSE 0,
                                        IF truthy(y) THEN Val(y) ELSE 0>>)>> \o direct
      ELSE direct

----------------------------------------------------------------------------
(* parseAttributes *)

\* x ?? d
Coalesce(o, d) == IF o = None THEN d ELSE o

\* fill: fillRaw?.rgb || inherited.fill (also stroke)
resolveColor(colorRaw, inheritedColor) ==
  IF colorRaw # None THEN Some(Val(colorRaw).rgb) ELSE inheritedColor

\* Mutant: the alpha of the colour is looked at before the opacity values.
resolveOpacityAlphaFirst(ownOpacityRaw, opacityRaw, colorRaw, inheritedOpacity) ==
  Coalesce(parseFloatValue(OrStr(IF colorRaw # None THEN Val(colorRaw).alpha ELSE "",
                                 OrStr(ownOpacityRaw, opacityRaw)), Unit),
           inheritedOpacity)

\* fillOpacity: parseFloatValue(fillOpacityRaw || opacityRaw || fillRaw?.alpha)
\*              ?? inherited.fillOpacity (also strokeOpacity)
resolveOpacity(ownOpacityRaw, opacityRaw, colorRaw, inheritedOpacity) ==
  Coalesce(parseFloatValue(OrStr(ownOpacityRaw,
                                 OrStr(opacityRaw,
                                       IF colorRaw # None THEN Val(colorRaw).alpha ELSE "")),
                           Unit),
           inheritedOpacity)

\* StrokeLineCapMap[strokeLineCapRaw] || inherited.strokeLineCap (also line join)
resolveEnum(map, raw, inheritedValue) ==
  IF raw \in DOMAIN map THEN Some(map[raw]) ELSE inheritedValue

\* Lines 719-721.
convertFontSize(fontSize, newConverter) ==
  IF fontSize # None /\ Val(fontSize) # 0
  THEN Some(size(newConverter, Unit, Val(fontSize)).height)
  ELSE fontSize

\* Lines 722-726: `"Linux Libertine O", serif` becomes `Linux Libertine O`.
convertFontFamily(fontFamily) ==
  CASE fontFamily = Some("'Times New Roman', serif") -> Some("Times New Roman")
    [] OTHER -> fontFamily

\* Mutant: no lower bound of one unit.
convertStrokeWidthNoClamp(strokeWidth, newConverter) ==
  IF strokeWidth # None /\ Val(strokeWidth) # 0
  THEN LET result == size(newConverter, Val(strokeWidth), Val(strokeWidth))
       IN  Some(Min(Abs(result.width), Abs(result.height)))
  ELSE strokeWidth

\* Lines 728-731.
convertStrokeWidth(strokeWidth, newConverter) ==
  IF strokeWidth # None /\ Val(strokeWidth) # 0
  THEN LET result == size(newConverter, Val(strokeWidth), Val(strokeWidth))
       IN  Some(Max(Min(Abs(result.width), Abs(result.height)), Unit))
  ELSE strokeWidth

\* a || b on numbers that may be undefined; the result is a number
OrNum(o, d) == IF o # None /\ Val(o) # 0 THEN Val(o) ELSE d

parseAttributes(elt, inh, conv) ==
  LET attributes == elt.attributes
      style == parseStyles(elt.style)
      widthRaw == styleOrAttribute(attributes, style, "width")
      heightRaw == styleOrAttribute(attributes, style, "height")
      fillRaw == parseColor(styleOrAttribute(attributes, style, "fill"))
      fillOpacityRaw == styleOrAttribute(attributes, style, "fill-opacity")
      opacityRaw == styleOrAttribute(attributes, style, "opacity")
      strokeRaw == parseColor(styleOrAttribute(attributes, style, "stroke"))
      strokeOpacityRaw == styleOrAttribute(attributes, style, "stroke-opacity")
      strokeLineCapRaw == styleOrAttribute(attributes, style, "stroke-linecap")
      strokeLineJoinRaw == styleOrAttribute(attributes, style, "stroke-linejoin")
      strokeWidthRaw == styleOrAttribute(attributes, style, "stroke-width")
      fontFamilyRaw == styleOrAttribute(attributes, style, "font-family")
      fontSizeRaw == styleOrAttribute(attributes, style, "font-size")
      width == parseFloatValue(widthRaw, inh.width)
      height == parseFloatValue(heightRaw, inh.height)
      x == parseFloatValue(attr(attributes, "x"), inh.width)
      y == parseFloatValue(attr(attributes, "y"), inh.height)
      x1 == parseFloatValue(attr(attributes, "x1"), inh.width)
      x2 == parseFloatValue(attr(attributes, "x2"), inh.width)
      y1 == parseFloatValue(attr(attributes, "y1"), inh.height)
      y2 == parseFloatValue(attr(attributes, "y2"), inh.height)
      cx == parseFloatValue(attr(attributes, "cx"), inh.width)
      cy == parseFloatValue(attr(attributes, "cy"), inh.height)
      rx == parseFloatValue(OrStr(attr(attributes, "rx"), attr(attributes, "r")), inh.width)
      ry == parseFloatValue(OrStr(attr(attributes, "ry"), attr(attributes, "r")), inh.height)
      newConverter == applyTransforms(conv, transformListOf(attributes, x, y))
      origin == point(newConverter, 0, 0)
      centre == point(newConverter, OrNum(cx, 0), OrNum(cy, 0))
      radii == size(newConverter, OrNum(rx, 0), OrNum(ry, 0))
      p1 == point(newConverter, OrNum(x1, 0), OrNum(y1, 0))
      p2 == point(newConverter, OrNum(x2, 0), OrNum(y2, 0))
      box == size(conv, OrNum(width, inh.width), OrNum(height, inh.height))
      hasCentre == attr(attributes, "cx") # "" \/ attr(attributes, "cy") # ""
      hasRadii == attr(attributes, "rx") # "" \/ attr(attributes, "ry") # ""
      hasP1 == attr(attributes, "x1") # "" \/ attr(attributes, "y1") # ""
      hasP2 == attr(attributes, "x2") # "" \/ attr(attributes, "y2") # ""
      hasBox == attr(attributes, "width") # "" \/ attr(attributes, "height") # ""
  IN  [inherited |->
         [fontFamily |->
            convertFontFamily(IF fontFamilyRaw # "" THEN Some(fontFamilyRaw)
                              ELSE inh.fontFamily),
          fontSize |->
            convertFontSize(Coalesce(parseFloatValue(fontSizeRaw, Unit), inh.fontSize),
                            newConverter),
          fill |-> resolveColor(fillRaw, inh.fill),
          fillOpacity |-> resolveOpacity(fillOpacityRaw, opacityRaw, fillRaw, inh.fillOpacity),
          stroke |-> resolveColor(strokeRaw, inh.stroke),
          strokeWidth |->
            convertStrokeWidth(Coalesce(parseFloatValue(strokeWidthRaw, Unit), inh.strokeWidth),
                               newConverter),
          strokeOpacity |->
            resolveOpacity(strokeOpacityRaw, opacityRaw, strokeRaw, inh.strokeOpacity),
          strokeLineCap |-> resolveEnum(StrokeLineCapMap, strokeLineCapRaw, inh.strokeLineCap),
          strokeLineJoin |->
            resolveEnum(StrokeLineJoinMap, strokeLineJoinRaw, inh.strokeLineJoin),
          width |-> OrNum(width, inh.width),
          height |-> OrNum(height, inh.height)],
       svgAttributes |->
         [src |-> OrStr(attr(attributes, "src"), attr(attributes, "xlink:href")),
          textAnchor |-> attr(attributes, "text-anchor"),
          preserveAspectRatio |-> attr(attributes, "preserveAspectRatio"),
          skewX |-> directNumber(attr(attributes, "skewX")),
          skewY |-> directNumber(attr(attributes, "skewY")),
          rotate |-> directNumber(attr(attributes, "rotate")),
          scale |-> directNumber(attr(attributes, "scale")),
          x |-> origin.x,
          y |-> origin.y,
          cx |-> IF hasCentre THEN Some(centre.x) ELSE None,
          cy |-> IF hasCentre THEN Some(centre.y) ELSE None,
          rx |-> IF hasRadii THEN Some(radii.width) ELSE None,
          ry |-> IF hasRadii THEN Some(radii.height) ELSE None,
          x1 |-> IF hasP1 THEN Some(p1.x) ELSE None,
          y1 |-> IF hasP1 THEN Some(p1.y) ELSE None,
          x2 |-> IF hasP2 THEN Some(p2.x) ELSE None,
          y2 |-> IF hasP2 THEN Some(p2.y) ELSE None,
          width |-> IF hasBox THEN Some(box.width) ELSE None,
          height |-> IF hasBox THEN Some(box.height) ELSE None],
       converter |-> newConverter,
       tagName |-> elt.tagName]

----------------------------------------------------------------------------
(* Specification SpecAttr: parseAttributes on one element.                 *)

\* The attributes object with the given declarations <<name, value>>.
Attributes(decls) ==
  [n \in {d[1] : d \in decls} |-> (CHOOSE d \in decls : d[1] = n)[2]]

\* The values the inputs give to each paint and font property.
PaintNames ==
  {"fill", "fill-opacity", "opacity", "stroke", "stroke-opacity", "stroke-linecap",
   "stroke-linejoin", "stroke-width", "font-family", "font-size"}

PaintValues(n) ==
  CASE n \in {"fill", "stroke"} -> {"red", "none", "rgba(0,0,255,0.5)"}
    [] n \in {"fill-opacity", "stroke-opacity", "opacity"} -> {"0", "0.25", "abc"}
    [] n = "stroke-width" -> {"0", "0.5", "2", "abc"}
    [] n = "stroke-linecap" -> {"butt", "round", "square", "foo"}
    [] n = "stroke-linejoin" -> {"bevel", "miter", "round", "foo"}
    [] n = "font-family" -> {"Arial", "'Times New Roman', serif"}
    [] n = "font-size" -> {"2", "abc"}

PaintDecls == UNION {{<<n, v>> : v \in PaintValues(n)} : n \in PaintNames}

\* An inline style of at most one declaration.
StyleInputs == {<<>>} \cup {<<d>> : d \in PaintDecls}

\* At most two presentation attributes.
AttributeInputs ==
  {{}} \cup {{d} : d \in PaintDecls}
       \cup {{d, e} : <<d, e>> \in {q \in PaintDecls \X PaintDecls : q[1][1] # q[2][1]}}

\* page.getSize(): the InheritedAttributes drawSvg starts from.
PageSize == [width |-> 4 * Unit, height |-> 4 * Unit]

RootInherited ==
  [width |-> PageSize.width, height |-> PageSize.height,
   fill |-> None, fillOpacity |-> None, stroke |-> None, strokeWidth |-> None,
   strokeOpacity |-> None, strokeLineCap |-> None, strokeLineJoin |-> None,
   fontFamily |-> None, fontSize |-> None]

\* The attributes a group with every paint and font property set hands down.
GroupInherited ==
  [width |-> PageSize.width, height |-> PageSize.height,
   fill |-> Some("rgb(0,1,0)"), fillOpacity |-> Some(3 * (Unit \div 4)),
   stroke |-> Some("rgb(0,1,0)"), strokeWidth |-> Some(3 * Unit),
   strokeOpacity |-> Some(3 * (Unit \div 4)), strokeLineCap |-> Some("Projecting"),
   strokeLineJoin |-> Some("Bevel"), fontFamily |-> Some("Helvetica"),
   fontSize |-> Some(3 * Unit)]

ConverterInputs ==
  {defaultConverter(PageSize),
   transform(defaultConverter(PageSize), "scale", <<2 * Unit, 3 * Unit>>),
   transform(defaultConverter(PageSize), "scale", <<0>>)}

ClipIdle == svgRect = Undefined /\ element = Undefined /\ line = Undefined

InitAttr ==
  /\ pc = "parseAttributes"
  /\ node \in {[tagName |-> "rect", style |-> st, attributes |-> Attributes(at)] :
                 st \in StyleInputs, at \in AttributeInputs}
  /\ inherited \in {RootInherited, GroupInherited}
  /\ converter \in ConverterInputs
  /\ parsed = Undefined
  /\ calls = <<>>
  /\ ClipIdle
  /\ DrawIdle
  /\ FitIdle
  /\ PathIdle

ParseAttributes ==
  /\ pc = "parseAttributes"
  /\ parsed' = parseAttributes(node, inherited, converter)
  /\ pc' = "done"
  /\ UNCHANGED <<node, inherited, converter, calls, clipVars, drawVars, fitVars, pathVars>>

NextAttr == ParseAttributes

SpecAttr == InitAttr /\ [][NextAttr]_vars

----------------------------------------------------------------------------
(* Properties of the attribute resolver *)

StyleOf(n) == parseStyles(node.style)[n]
AttributeOf(n) == attr(node.attributes, n)
\* The element's own value of n under the cascade: the inline style's when it
\* gives one, else the presentation attribute's ("" when neither does).
Own(n) == IF StyleOf(n) # "" THEN StyleOf(n) ELSE AttributeOf(n)

IsColor(s) == s \in {"red", "rgba(0,0,255,0.5)", "rgba(0,255,0,0)"}
NumberOf(s) == parseFloatValue(s, Unit)
Resolved == parsed.inherited

C8_NoneIsAbsent ==
  pc = "done" =>
    /\ Own("fill") \in {"none", "transparent"} => Resolved.fill = None
    /\ Own("stroke") \in {"none", "transparent"} => Resolved.stroke = None

\* C9: with a colour carrying an alpha and an explicit fill-opacity /
\* stroke-opacity / opacity value, the resolved opacity is the explicit value,
\* not the colour's alpha; the alpha is used only when no opacity value is given.
C9_OpacityOverAlpha ==
  pc = "done" =>
    /\ (IsColor(Own("fill")) /\ NumberOf(Own("fill-opacity")) # None) =>
         Resolved.fillOpacity = NumberOf(Own("fill-opacity"))
    /\ (IsColor(Own("fill")) /\ Own("fill-opacity") = "" /\ NumberOf(Own("opacity")) # None) =>
         Resolved.fillOpacity = NumberOf(Own("opacity"))
    /\ (IsColor(Own("fill")) /\ Own("fill-opacity") = "" /\ Own("opacity") = ""
          /\ Val(parseColor(Own("fill"))).alpha # "") =>
         Resolved.fillOpacity = NumberOf(Val(parseColor(Own("fill"))).alpha)
    /\ (IsColor(Own("stroke")) /\ NumberOf(Own("stroke-opacity")) # None) =>
         Resolved.strokeOpacity = NumberOf(Own("stroke-opacity"))
    /\ (IsColor(Own("stroke")) /\ Own("stroke-opacity") = ""
          /\ NumberOf(Own("opacity")) # None) =>
         Resolved.strokeOpacity = NumberOf(Own("opacity"))
    /\ (IsColor(Own("stroke")) /\ Own("stroke-opacity") = "" /\ Own("opacity") = ""
          /\ Val(parseColor(Own("stroke"))).alpha # "") =>
         Resolved.strokeOpacity = NumberOf(Val(parseColor(Own("stroke"))).alpha)
    \* an opacity value that is given but is no number leaves the inherited
    \* opacity, not the colour's alpha
    /\ (IsColor(Own("fill")) /\ OrStr(Own("fill-opacity"), Own("opacity")) # ""
          /\ NumberOf(OrStr(Own("fill-opacity"), Own("opacity"))) = None) =>
         Resolved.fillOpacity = inherited.fillOpacity

\* a colour of alpha 0.5 with fill-opacity 0.25: the opacity is 0.25
C9_Witness ==
  /\ pc = "done"
  /\ Own("fill") = "rgba(0,0,255,0.5)" /\ Own("fill-opacity") = "0.25"
  /\ inherited.fillOpacity = Some(3 * (Unit \div 4))
  /\ Resolved.fillOpacity = Some(Unit \div 4)

\* The stroke width the element is given (a number) or, failing that, inherits.
GivenStrokeWidth == Coalesce(NumberOf(Own("stroke-width")), inherited.strokeWidth)

\* C10: whenever a stroke width is given or inherited (0 included), the
\* resolved strokeWidth is max(min(|w_x|, |w_y|), 1) for (w_x, w_y) the
\* converter's size mapping of the width, hence at least 1.
C10_StrokeWidthClamped ==
  (pc = "done" /\ GivenStrokeWidth # None) =>
     LET w == size(parsed.converter, Val(GivenStrokeWidth), Val(GivenStrokeWidth))
     IN  /\ Resolved.strokeWidth = Some(Max(Min(Abs(w.width), Abs(w.height)), Unit))
         /\ Val(Resolved.strokeWidth) >= Unit

----------------------------------------------------------------------------
(* The tree walker.  The parsed markup is the sequence of its nodes in       *)
(* document order, each with its depth: the children of node i are the nodes *)
(* one level deeper that follow it before the next node at its level or      *)
(* above.  A node is known by its position in the sequence.                  *)

RECURSIVE childNodesFrom(_, _, _)
childNodesFrom(doc, i, j) ==
  IF j > Len(doc) \/ doc[j].depth <= doc[i].depth THEN <<>>
  ELSE IF doc[j].depth = doc[i].depth + 1 THEN <<j>> \o childNodesFrom(doc, i, j + 1)
  ELSE childNodesFrom(doc, i, j + 1)

\* Mutant: every descendant is taken for a child.
RECURSIVE descendantsFrom(_, _, _)
descendantsFrom(doc, i, j) ==
  IF j > Len(doc) \/ doc[j].depth <= doc[i].depth THEN <<>>
  ELSE <<j>> \o descendantsFrom(doc, i, j + 1)

childNodesAllDescendants(doc, i) == descendantsFrom(doc, i, i + 1)

\* node.childNodes
childNodes(doc, i) == childNodesFrom(doc, i, i + 1)

\* { ...attributes.inherited, ...attributes.svgAttributes }
mergeAttributes(attributes) ==
  LET inh == attributes.inherited
      own == attributes.svgAttributes
  IN  [fontFamily |-> inh.fontFamily, fontSize |-> inh.fontSize, fill |-> inh.fill,
       fillOpacity |-> inh.fillOpacity, stroke |-> inh.stroke,
       strokeWidth |-> inh.strokeWidth, strokeOpacity |-> inh.strokeOpacity,
       strokeLineCap |-> inh.strokeLineCap, strokeLineJoin |-> inh.strokeLineJoin,
       width |-> IF own.width # None THEN Val(own.width) ELSE inh.width,
       height |-> IF own.height # None THEN Val(own.height) ELSE inh.height,
       src |-> own.src, textAnchor |-> own.textAnchor,
       preserveAspectRatio |-> own.preserveAspectRatio,
       skewX |-> own.skewX, skewY |-> own.skewY, rotate |-> own.rotate, scale |-> own.scale,
       x |-> own.x, y |-> own.y, cx |-> own.cx, cy |-> own.cy, rx |-> own.rx, ry |-> own.ry,
       x1 |-> own.x1, y1 |-> own.y1, x2 |-> own.x2, y2 |-> own.y2]

RECURSIVE parseHTMLNode(_, _, _, _)
RECURSIVE parseGroupNode(_, _, _, _)

parseHTMLNode(doc, i, inh, conv) ==
  IF doc[i].nodeType = "COMMENT_NODE" THEN <<>>
  ELSE IF doc[i].nodeType = "TEXT_NODE" THEN <<>>
  ELSE IF doc[i].tagName = "g" \/ doc[i].tagName = "svg" THEN parseGroupNode(doc, i, inh, conv)
  ELSE LET attributes == parseAttributes(doc[i], inh, conv)
       IN  <<[node |-> i, tagName |-> doc[i].tagName,
              svgAttributes |-> mergeAttributes(attributes)]>>

\* Mutant: newInherited is the given object itself, filled in place.
argumentsAfterInPlace(elt, inh, conv) ==
  [inherited |-> parseAttributes(elt, inh, conv).inherited, converter |-> conv]

\* The objects `inherited` and `converter` given to parseAttributes, as the
\* call leaves them.  The call only reads them: newInherited is a new object
\* (lines 506-524), the assignments of lines 720, 725 and 730 go to it, and
\* newConverter is a variable that is assigned new converters.
argumentsAfter(elt, inh, conv) == [inherited |-> inh, converter |-> conv]

\* The object `attributes` of parseGroupNode after parseHTMLNode has handled one
\* child: an element child has passed attributes.inherited and
\* attributes.converter, by reference, to its parseAttributes.
attributesAfter(child, attributes) ==
  IF child.nodeType \in {"COMMENT_NODE", "TEXT_NODE"} THEN attributes
  ELSE LET after == argumentsAfter(child, attributes.inherited, attributes.converter)
       IN  [attributes EXCEPT !.inherited = after.inherited, !.converter = after.converter]

\* node.childNodes.forEach((child) => result.push(...parseHTMLNode(child, ...)))
RECURSIVE forEachChild(_, _, _)
forEachChild(doc, children, attributes) ==
  IF children = <<>> THEN <<>>
  ELSE parseHTMLNode(doc, Head(children), attributes.inherited, attributes.converter)
         \o forEachChild(doc, Tail(children), attributesAfter(doc[Head(children)], attributes))

parseGroupNode(doc, i, inh, conv) ==
  forEachChild(doc, childNodes(doc, i), parseAttributes(doc[i], inh, conv))

\* htmlElement.setAttribute(name, value)
setAttribute(elt, name, value) ==
  [elt EXCEPT !.attributes =
     [n \in DOMAIN elt.attributes \cup {name} |->
        IF n = name THEN value ELSE elt.attributes[n]]]

\* The root element after parse has set the width, height, x, y and font size
\* of the options on it.
rootElement(doc, opts, pageSize) ==
  LET e0 == doc[1]
      e1 == IF opts.width # None /\ Val(opts.width) # 0
            THEN setAttribute(e0, "width", numberToString(Val(opts.width))) ELSE e0
      e2 == IF opts.height # None /\ Val(opts.height) # 0
            THEN setAttribute(e1, "height", numberToString(Val(opts.height))) ELSE e1
      e3 == IF opts.x # None THEN setAttribute(e2, "x", numberToString(Val(opts.x))) ELSE e2
      e4 == IF opts.y # None
            THEN setAttribute(e3, "y", numberToString(pageSize.height - Val(opts.y))) ELSE e3
  IN  IF opts.fontSize # None /\ Val(opts.fontSize) # 0
      THEN setAttribute(e4, "font-size", numberToString(Val(opts.fontSize))) ELSE e4

\* `size` of parse, given to parseHTMLNode as the inherited attributes.
sizeAsInherited(pageSize) ==
  [width |-> pageSize.width, height |-> pageSize.height,
   fill |-> None, fillOpacity |-> None, stroke |-> None, strokeWidth |-> None,
   strokeOpacity |-> None, strokeLineCap |-> None, strokeLineJoin |-> None,
   fontFamily |-> None, fontSize |-> None]

parse(doc, opts, pageSize, conv) ==
  parseHTMLNode([doc EXCEPT ![1] = rootElement(doc, opts, pageSize)], 1,
                sizeAsInherited(pageSize), conv)

----------------------------------------------------------------------------
(* The runners and drawSvg *)

rectRunnerCalls(elt) ==
  IF elt.fill = None /\ elt.stroke = None THEN <<>>
  ELSE <<[op |-> "drawRectangle", x |-> elt.x, y |-> elt.y, width |-> elt.width,
          height |-> elt.height * (-1), borderColor |-> elt.stroke,
          borderWidth |-> elt.strokeWidth, borderOpacity |-> elt.strokeOpacity,
          borderLineCap |-> elt.strokeLineCap, color |-> elt.fill,
          opacity |-> elt.fillOpacity, xSkew |-> elt.skewX, ySkew |-> elt.skewY,
          rotate |-> elt.rotate]>>

ellipseRunnerCalls(elt) ==
  <<[op |-> "drawEllipse", x |-> elt.cx, y |-> elt.cy, xScale |-> elt.rx, yScale |-> elt.ry,
     borderColor |-> elt.stroke, borderWidth |-> elt.strokeWidth,
     borderOpacity |-> elt.strokeOpacity, borderLineCap |-> elt.strokeLineCap,
     color |-> elt.fill, opacity |-> elt.fillOpacity, rotate |-> elt.rotate]>>

\* The draw calls runners[elt.tagName]?.(elt) makes before it returns its
\* promise: all of them for a runner without await, none for image, whose
\* drawImage follows the awaited embedPng.  (The text and path runners are not
\* modelled; the markup of this specification has no such element.)
runnerCalls(rect, elt) ==
  CASE elt.tagName = "rect" -> rectRunnerCalls(elt.svgAttributes)
    [] elt.tagName = "line" -> lineRunnerCalls(rect, elt.svgAttributes)
    [] elt.tagName \in {"ellipse", "circle"} -> ellipseRunnerCalls(elt.svgAttributes)
    [] elt.tagName = "image" -> <<>>
    [] elt.tagName \notin {"text", "line", "path", "image", "rect", "ellipse", "circle"} -> <<>>

\* elements.forEach((elt) => runners[elt.tagName]?.(elt)): no runner is awaited.
\* Each call is recorded with the node it was made for.
RECURSIVE forEachRunner(_, _)
forEachRunner(rect, elts) ==
  IF elts = <<>> THEN <<>>
  ELSE LET made == runnerCalls(rect, Head(elts))
       IN  [k \in DOMAIN made |-> [node |-> Head(elts).node, call |-> made[k]]]
             \o forEachRunner(rect, Tail(elts))

\* svgRect of drawSvg (lines 887-892).
svgRectOf(doc, opts) ==
  LET x == IF opts.x # None THEN Val(opts.x) ELSE Val(parseFloat(attr(doc[1].attributes, "x")))
      y == IF opts.y # None THEN Val(opts.y) ELSE Val(parseFloat(attr(doc[1].attributes, "y")))
      width == IF opts.width # None THEN Val(opts.width)
               ELSE Val(parseFloat(attr(doc[1].attributes, "width")))
      height == IF opts.height # None THEN Val(opts.height)
                ELSE Val(parseFloat(attr(doc[1].attributes, "height")))
  IN  Rectangle(Point(x, y), Point(x + width, y - height))

----------------------------------------------------------------------------
(* Specification Spec: one call of drawSvg.                                  *)

\* The markup has at most MaxNodes nodes.
MaxNodes == 4

ElementTags == {"svg", "g", "rect", "image"}

NodeKinds ==
  {[nodeType |-> "COMMENT_NODE", tagName |-> ""], [nodeType |-> "TEXT_NODE", tagName |-> ""]}
    \cup {[nodeType |-> "ELEMENT_NODE", tagName |-> t] : t \in ElementTags}

\* The attributes the markup gives to the elements of each tag.
TagAttributes(tag) ==
  CASE tag = "rect" -> {<<"fill", "red">>, <<"width", "1">>, <<"height", "1">>}
    [] tag = "image" -> {<<"src", "data:image/png;base64">>}
    [] OTHER -> {}

MakeNode(depth, kind) ==
  [depth |-> depth, nodeType |-> kind.nodeType, tagName |-> kind.tagName, style |-> <<>>,
   attributes |-> Attributes(TagAttributes(kind.tagName))]

\* The depths of the n nodes of a markup, in document order: the root alone is
\* at depth 0 and a node is at most one level below the node before it.
DepthSequences(n) ==
  {d \in [1..n -> 0..(n - 1)] :
     d[1] = 0 /\ \A i \in 2..n : d[i] >= 1 /\ d[i] <= d[i - 1] + 1}

\* The root is an element; a comment or a text has no children.
InitSvg ==
  \E n \in 1..MaxNodes : \E d \in DepthSequences(n) : \E k \in [1..n -> NodeKinds] :
     /\ k[1].nodeType = "ELEMENT_NODE"
     /\ \A i \in 2..n : d[i] > d[i - 1] => k[i - 1].nodeType = "ELEMENT_NODE"
     /\ svg = [i \in 1..n |-> MakeNode(d[i], k[i])]

\* The target box: the whole page, or a box inside it.
OptionInputs ==
  {[x |-> Some(0), y |-> Some(4 * Unit), width |-> Some(4 * Unit),
    height |-> Some(4 * Unit), fontSize |-> None],
   [x |-> Some(Unit), y |-> Some(3 * Unit), width |-> Some(2 * Unit),
    height |-> Some(2 * Unit), fontSize |-> Some(2 * Unit)]}

Init ==
  /\ pc = "drawSvg"
  /\ InitSvg
  /\ options \in OptionInputs
  /\ elements = <<>>
  /\ pending = {}
  /\ status = "none"
  /\ rejected = {}
  /\ calls = <<>>
  /\ ClipIdle
  /\ AttrIdle
  /\ FitIdle
  /\ PathIdle

\* The body of drawSvg runs to its end without waiting: it parses the markup,
\* starts every runner and returns, which fulfils its promise.  A runner that
\* awaits (image) is left waiting for its embedPng.
DrawSvg ==
  /\ pc = "drawSvg"
  /\ svgRect' = svgRectOf(svg, options)
  /\ elements' = parse(svg, options, PageSize, defaultConverter(PageSize))
  /\ calls' = forEachRunner(svgRect', elements')
  /\ pending' = {k \in DOMAIN elements' : elements'[k].tagName = "image"}
  /\ status' = "fulfilled"
  /\ pc' = "returned"
  /\ UNCHANGED <<svg, options, rejected, element, line, attrVars, fitVars, pathVars>>

\* page.doc.embedPng of element k is fulfilled: its runner goes on to drawImage.
EmbedFulfilled(k) ==
  /\ pc = "returned"
  /\ k \in pending
  /\ pending' = pending \ {k}
  /\ calls' = Append(calls, [node |-> elements[k].node, call |-> [op |-> "drawImage"]])
  /\ UNCHANGED <<pc, svg, options, elements, status, rejected, clipVars, attrVars, fitVars, pathVars>>

\* page.doc.embedPng of element k is rejected: the promise of its runner, which
\* nothing awaits or catches, is rejected.
EmbedRejected(k) ==
  /\ pc = "returned"
  /\ k \in pending
  /\ pending' = pending \ {k}
  /\ rejected' = rejected \cup {k}
  /\ UNCHANGED <<pc, svg, options, elements, status, calls, clipVars, attrVars, fitVars, pathVars>>

Next ==
  \/ DrawSvg
  \/ \E k \in pending : EmbedFulfilled(k)
  \/ \E k \in pending : EmbedRejected(k)

Spec == Init /\ [][Next]_vars

----------------------------------------------------------------------------
(* Properties of drawSvg and of the tree walker.                             *)

\* The proper ancestors of node j, read off the depths alone: node i comes
\* before j and every node after i up to j lies deeper than i.
Ancestors(doc, j) ==
  {i \in 1..(j - 1) : \A m \in (i + 1)..j : doc[m].depth > doc[i].depth}

IsGroup(n) == n.nodeType = "ELEMENT_NODE" /\ n.tagName \in {"svg", "g"}

\* The element nodes that are no svg or g and hang below svg and g nodes only.
Drawables(doc) ==
  {j \in DOMAIN doc :
     /\ doc[j].nodeType = "ELEMENT_NODE"
     /\ ~IsGroup(doc[j])
     /\ \A i \in Ancestors(doc, j) : IsGroup(doc[i])}

\* C1: for two elements a before b in document order, every draw call made
\* for a (the drawImage after an image's awaited embed included) comes before
\* every draw call made for b.
C1_DocumentOrder ==
  \A i, j \in DOMAIN calls : calls[i].node < calls[j].node => i < j

\* C2: when the embed of an image fails, the call of drawSvg ends in failure
\* and never completes successfully.
C2_ImageFailurePropagates ==
  rejected # {} => status = "rejected"

\* C6: the walker returns exactly the element nodes that are no svg or g and
\* are reached from the root through svg and g nodes only, each once and in
\* document order; no svg, g, comment or text is returned and nothing below a
\* leaf element is.
C6_DrawablesInOrder ==
  pc = "returned" =>
     /\ {elements[k].node : k \in DOMAIN elements} = Drawables(svg)
     /\ \A k, l \in DOMAIN elements : k < l => elements[k].node < elements[l].node
     /\ \A k \in DOMAIN elements :
           /\ svg[elements[k].node].nodeType = "ELEMENT_NODE"
           /\ elements[k].tagName = svg[elements[k].node].tagName
           /\ elements[k].tagName \notin {"svg", "g"}
           /\ \A i \in Ancestors(svg, elements[k].node) : IsGroup(svg[i])

\* A markup whose root svg holds a g with a leaf element in it, and an element
\* below that leaf, has been walked: the leaf is returned, the element below it
\* is not.
C6_Witness ==
  /\ pc = "returned"
  /\ svg[1].tagName = "svg"
  /\ \E g \in DOMAIN svg : \E j \in DOMAIN svg :
        /\ svg[g].tagName = "g" /\ svg[g].depth = 1
        /\ g \in Ancestors(svg, j) /\ svg[j].depth = 2
        /\ \E k \in DOMAIN elements : elements[k].node = j
  /\ \E j \in DOMAIN svg :
        /\ svg[j].nodeType = "ELEMENT_NODE"
        /\ ~IsGroup(svg[j])
        /\ \E i \in Ancestors(svg, j) : ~IsGroup(svg[i])

----------------------------------------------------------------------------
(* getFittingRectangle (lines 774-797).                                      *)

getFittingRectangle(originalWidth, originalHeight, targetWidth, targetHeight, preserveAspectRatio) ==
  IF preserveAspectRatio = "none"
  THEN [x |-> 0, y |-> 0, width |-> targetWidth, height |-> targetHeight]
  ELSE LET originalRatio == Div(originalWidth, originalHeight)
           targetRatio == Div(targetWidth, targetHeight)
           width == IF targetRatio > originalRatio
                    THEN Mul(originalRatio, targetHeight) ELSE targetWidth
           height == IF targetRatio >= originalRatio
                     THEN targetHeight ELSE Div(targetWidth, originalRatio)
           dx == targetWidth - width
           dy == targetHeight - height
           xy == CASE preserveAspectRatio = "xMinYMin" -> <<0, 0>>
                   [] preserveAspectRatio = "xMidYMin" -> <<Quot(dx, 2), 0>>
                   [] preserveAspectRatio = "xMaxYMin" -> <<dx, Quot(dy, 2)>>
                   [] preserveAspectRatio = "xMinYMid" -> <<0, dy>>
                   [] preserveAspectRatio = "xMaxYMid" -> <<dx, Quot(dy, 2)>>
                   [] preserveAspectRatio = "xMinYMax" -> <<0, dy>>
                   [] preserveAspectRatio = "xMidYMax" -> <<Quot(dx, 2), dy>>
                   [] preserveAspectRatio = "xMaxYMax" -> <<dx, dy>>
                   [] OTHER -> <<Quot(dx, 2), Quot(dy, 2)>>
       IN  [x |-> xy[1], y |-> xy[2], width |-> width, height |-> height]

----------------------------------------------------------------------------
(* Specification SpecFit: one call of getFittingRectangle.                   *)

\* The nine alignment tokens, `none`, an absent token ("") and an unknown one.
AlignTokens ==
  {"xMinYMin", "xMidYMin", "xMaxYMin", "xMinYMid", "xMidYMid", "xMaxYMid",
   "xMinYMax", "xMidYMax", "xMaxYMax"}
AspectTokens == AlignTokens \cup {"none", "", "foo"}

\* Sides of the intrinsic box and of the target box: every ratio is a power of
\* two, so that every quotient of the function is exact.
OriginalSides == {Unit, 2 * Unit, 4 * Unit}
TargetSides == {2 * Unit, 4 * Unit}

InitFit ==
  /\ pc = "getFittingRectangle"
  /\ fitArgs \in [originalWidth : OriginalSides, originalHeight : OriginalSides,
                  targetWidth : TargetSides, targetHeight : TargetSides,
                  preserveAspectRatio : AspectTokens]
  /\ fitted = Undefined
  /\ calls = <<>>
  /\ ClipIdle
  /\ AttrIdle
  /\ DrawIdle
  /\ PathIdle

GetFittingRectangle ==
  /\ pc = "getFittingRectangle"
  /\ fitted' = getFittingRectangle(fitArgs.originalWidth, fitArgs.originalHeight,
                                   fitArgs.targetWidth, fitArgs.targetHeight,
                                   fitArgs.preserveAspectRatio)
  /\ pc' = "done"
  /\ UNCHANGED <<fitArgs, calls, clipVars, attrVars, drawVars, pathVars>>

NextFit == GetFittingRectangle

SpecFit == InitFit /\ [][NextFit]_vars

\* The largest box of the intrinsic proportions that fits into the target box.
ContainWidth(a) ==
  IF a.targetWidth * a.originalHeight <= a.targetHeight * a.originalWidth
  THEN a.targetWidth
  ELSE Quot(a.originalWidth * a.targetHeight, a.originalHeight)

ContainHeight(a) ==
  IF a.targetWidth * a.originalHeight <= a.targetHeight * a.originalWidth
  THEN Quot(a.originalHeight * a.targetWidth, a.originalWidth)
  ELSE a.targetHeight

\* The share of the free space the token puts before the box: 0, 1/2 or 1.
AlignX(token, dx) ==
  CASE token \in {"xMinYMin", "xMinYMid", "xMinYMax"} -> 0
    [] token \in {"xMaxYMin", "xMaxYMid", "xMaxYMax"} -> dx
    [] OTHER -> Quot(dx, 2)

AlignY(token, dy) ==
  CASE token \in {"xMinYMin", "xMidYMin", "xMaxYMin"} -> 0
    [] token \in {"xMinYMax", "xMidYMax", "xMaxYMax"} -> dy
    [] OTHER -> Quot(dy, 2)

\* C11: for every token but `none` the result is the contain-fitted box, offset
\* by 0, dx/2 or dx for xMin, xMid, xMax and by 0, dy/2 or dy for YMin, YMid,
\* YMax; an absent or unknown token centres it; `none` gives the target box at
\* (0, 0).
C11_FittingRectangle ==
  pc = "done" =>
     IF fitArgs.preserveAspectRatio = "none"
     THEN fitted = [x |-> 0, y |-> 0, width |-> fitArgs.targetWidth,
                    height |-> fitArgs.targetHeight]
     ELSE /\ fitted.width = ContainWidth(fitArgs)
          /\ fitted.height = ContainHeight(fitArgs)
          /\ fitted.x = AlignX(fitArgs.preserveAspectRatio,
                               fitArgs.targetWidth - fitted.width)
          /\ fitted.y = AlignY(fitArgs.preserveAspectRatio,
                               fitArgs.targetHeight - fitted.height)

----------------------------------------------------------------------------
(* Specification SpecShapes: drawSvg on a markup of one shape inside nested  *)
(* groups, <svg><g transform=..>..<circle/></g></svg>.  The outermost group  *)
(* may set stroke-width and font-size.                                       *)

\* The shape has at most MaxGroups groups around it.
MaxGroups == 2

GroupTransforms ==
  {"", "scale(2)", "translate(1,2)", "translate(10,10) scale(2)", "foo(1) scale(2)"}

\* The declarations <<name, value>> whose value is given.
Given(decls) == {d \in decls : d[2] # ""}

ShapeLeaves ==
  {[tagName |-> "circle", decls |-> {<<"cx", cx>>, <<"cy", cy>>, <<"r", r>>}] :
     cx \in {"0", "1"}, cy \in {"0", "1"}, r \in {"2", "5"}}
  \cup
  {[tagName |-> "ellipse",
    decls |-> {<<"cx", "1">>, <<"cy", "2">>, <<"rx", "2">>, <<"ry", ry>>}] : ry \in {"1", "3"}}
  \cup
  {[tagName |-> "rect",
    decls |-> Given({<<"width", w>>, <<"height", h>>, <<"fill", f>>, <<"stroke", st>>})] :
     w \in {"0", "1", "10"}, h \in {"0", "2", "10"}, f \in {"", "red"},
     st \in {"", "rgba(0,0,255,0.5)"}}

ShapeNode(depth, tagName, decls) ==
  [depth |-> depth, nodeType |-> "ELEMENT_NODE", tagName |-> tagName, style |-> <<>>,
   attributes |-> Attributes(decls)]

\* A 100 x 100 box at the page origin, and the whole page.
ShapeOptions ==
  {[x |-> Some(0), y |-> Some(0), width |-> Some(100 * Unit), height |-> Some(100 * Unit),
    fontSize |-> None],
   [x |-> Some(0), y |-> Some(4 * Unit), width |-> Some(4 * Unit),
    height |-> Some(4 * Unit), fontSize |-> None]}

InitShapes ==
  /\ pc = "drawSvg"
  /\ \E n \in 0..MaxGroups : \E t \in [1..n -> GroupTransforms] : \E leaf \in ShapeLeaves :
     \E sw \in {"", "1"}, fs \in {"", "2"} :
       svg = <<ShapeNode(0, "svg", {})>>
               \o [i \in 1..n |->
                     ShapeNode(i, "g",
                               Given({<<"transform", t[i]>>,
                                      <<"stroke-width", IF i = 1 THEN sw ELSE "">>,
                                      <<"font-size", IF i = 1 THEN fs ELSE "">>}))]
               \o <<ShapeNode(n + 1, leaf.tagName, leaf.decls)>>
  /\ options \in ShapeOptions
  /\ elements = <<>>
  /\ pending = {}
  /\ status = "none"
  /\ rejected = {}
  /\ calls = <<>>
  /\ ClipIdle
  /\ AttrIdle
  /\ FitIdle
  /\ PathIdle

NextShapes == DrawSvg

SpecShapes == InitShapes /\ [][NextShapes]_vars

\* The shape of the markup and the numbers its attributes give.
Shape == svg[Len(svg)]
ShapeNumber(name) == parseFloat(attr(Shape.attributes, name))
ShapeHas(name) == attr(Shape.attributes, name) # ""

\* The mappings the markup asks for, computed on the instructions themselves.
\* Knowing(list) is the list without the instructions of unknown names.
KnownTransforms == {"scale", "translate"}
Knowing(list) == SelectSeq(list, LAMBDA ins : ins.name \in KnownTransforms)

\* An instruction list maps a point of its own coordinate system into the
\* enclosing one: the rightmost instruction is the innermost.
RECURSIVE ListPoint(_, _)
ListPoint(list, p) ==
  IF list = <<>> THEN p
  ELSE LET q == ListPoint(Tail(list), p)
           ins == Head(list)
           a == ins.args[1]
           b == IF Len(ins.args) >= 2 THEN ins.args[2] ELSE ins.args[1]
       IN  IF ins.name = "scale" THEN [x |-> Mul(q.x, a), y |-> Mul(q.y, b)]
           ELSE [x |-> q.x + a, y |-> q.y + b]

RECURSIVE ListSize(_, _)
ListSize(list, s) ==
  IF list = <<>> THEN s
  ELSE LET q == ListSize(Tail(list), s)
           ins == Head(list)
           a == ins.args[1]
           b == IF Len(ins.args) >= 2 THEN ins.args[2] ELSE ins.args[1]
       IN  IF ins.name = "scale" THEN [width |-> Mul(q.width, a), height |-> Mul(q.height, b)]
           ELSE q

\* The known instructions of all the groups around the shape, outermost first.
RECURSIVE GroupInstructions(_)
GroupInstructions(i) ==
  IF i >= Len(svg) THEN <<>>
  ELSE Knowing(parseTransformList(attr(svg[i].attributes, "transform")))
         \o GroupInstructions(i + 1)

\* The outer page converter: the markup's origin is the top left corner of the
\* target box and the vertical axis is flipped.
OuterPoint(p) == [x |-> Val(options.x) + p.x, y |-> Val(options.y) - p.y]

ExpectedPoint(x, y) == OuterPoint(ListPoint(GroupInstructions(2), [x |-> x, y |-> y]))
ExpectedSize(w, h) == ListSize(GroupInstructions(2), [width |-> w, height |-> h])

\* C12: a circle that gives its radius through `r` only is drawn as an ellipse
\* whose xScale and yScale are r through the accumulated size mapping and whose
\* centre is (cx, cy) through the accumulated point mapping, instructions
\* applied left to right; under translate(10,10) scale(2), cx = cy = 0 and
\* r = 5 give xScale = yScale = 10 and the centre at the outer image of (10,10).
C12_CircleByRadius ==
  (pc = "returned" /\ Shape.tagName = "circle" /\ ShapeHas("r")
     /\ ~ShapeHas("rx") /\ ~ShapeHas("ry")) =>
     LET r == Val(ShapeNumber("r"))
         centre == ExpectedPoint(Val(ShapeNumber("cx")), Val(ShapeNumber("cy")))
         radii == ExpectedSize(r, r)
     IN  /\ Len(calls) = 1
         /\ calls[1].call.op = "drawEllipse"
         /\ calls[1].call.xScale = Some(radii.width)
         /\ calls[1].call.yScale = Some(radii.height)
         /\ calls[1].call.x = Some(centre.x)
         /\ calls[1].call.y = Some(centre.y)

\* C13: a rect with a fill, no stroke, width w and height h under the root
\* page converter, the target box at the page origin, gives exactly one
\* drawRectangle call with width w, height -h, the fill's colour and no border
\* colour.
C13_RectFlippedOnce ==
  (pc = "returned" /\ Len(svg) = 2 /\ Shape.tagName = "rect"
     /\ options.x = Some(0) /\ options.y = Some(0)
     /\ ShapeHas("fill") /\ ~ShapeHas("stroke")
     /\ ShapeHas("width") /\ ShapeHas("height")) =>
     /\ Len(calls) = 1
     /\ calls[1].call.op = "drawRectangle"
     /\ calls[1].call.width = Val(ShapeNumber("width"))
     /\ calls[1].call.height = -Val(ShapeNumber("height"))
     /\ calls[1].call.color = Some(colorString(attr(Shape.attributes, "fill")).rgb)
     /\ calls[1].call.borderColor = None

\* The outermost group, its known instructions, and the stroke width and font
\* size it sets.
OuterGroup == svg[2]
OuterInstructions == Knowing(parseTransformList(attr(OuterGroup.attributes, "transform")))
OuterStrokeWidth == parseFloat(attr(OuterGroup.attributes, "stroke-width"))
OuterFontSize == parseFloat(attr(OuterGroup.attributes, "font-size"))

\* C14: a descendant that does not set stroke-width (resp. font-size) itself
\* resolves to the strokeWidth (resp. fontSize) resolved for the nearest
\* ancestor that set it, whatever groups and converters lie in between.
C14_InheritedUnchanged ==
  (pc = "returned" /\ Len(svg) >= 3) =>
     /\ OuterStrokeWidth # None =>
          LET w == ListSize(OuterInstructions, [width |-> Val(OuterStrokeWidth),
                                                height |-> Val(OuterStrokeWidth)])
          IN  elements[1].svgAttributes.strokeWidth
                = Some(Max(Min(Abs(w.width), Abs(w.height)), Unit))
     /\ OuterFontSize # None =>
          elements[1].svgAttributes.fontSize
            = Some(ListSize(OuterInstructions,
                            [width |-> Unit, height |-> Val(OuterFontSize)]).height)

----------------------------------------------------------------------------
(* runnersToPage.path (lines 188-286).  The text of a path is the sequence   *)
(* of its instructions, each a letter with its numbers; `d` is given as the  *)
(* commands the regular expression of line 258 finds, letter and parameters  *)
(* parsed.                                                                   *)

PathInstruction(letter, args) == [letter |-> letter, args |-> args]

\* normalizePoint
normalizePoint(basePoint, p) == Point(p.x - basePoint.x, p.y - basePoint.y)

\* Mutant: the point handed on is the end of the clipped segment.
handlePathVisualEnd(basePoint, rect, current, command, params) ==
  LET nextPoint == Point((IF command = "l" THEN current.x ELSE basePoint.x) + params[1],
                         (IF command = "l" THEN current.y ELSE basePoint.y) + params[2])
      result == getInnerSegment(current, nextPoint, rect)
  IN  IF command \in {"m", "M"}
      THEN [point |-> Point(basePoint.x + params[1], basePoint.y + params[2]),
            command |-> <<PathInstruction(command, <<params[1], params[2]>>)>>]
      ELSE IF command \in {"l", "L"}
      THEN [point |-> IF result = Undefined THEN nextPoint ELSE result.B,
            command |-> <<PathInstruction("L", <<nextPoint.x - basePoint.x,
                                                 nextPoint.y - basePoint.y>>)>>]
      ELSE [point |-> current, command |-> <<PathInstruction(command, params)>>]

\* Mutant: the move back to the original end is left out.
handlePathNoTrailingMove(basePoint, rect, current, command, params) ==
  LET nextPoint == Point((IF command = "l" THEN current.x ELSE basePoint.x) + params[1],
                         (IF command = "l" THEN current.y ELSE basePoint.y) + params[2])
      normalizedNext == normalizePoint(basePoint, nextPoint)
      result == getInnerSegment(current, nextPoint, rect)
  IN  IF command \in {"m", "M"}
      THEN [point |-> Point(basePoint.x + params[1], basePoint.y + params[2]),
            command |-> <<PathInstruction(command, <<params[1], params[2]>>)>>]
      ELSE IF command \in {"l", "L"}
      THEN IF result = Undefined
           THEN [point |-> nextPoint,
                 command |-> <<PathInstruction("M", <<normalizedNext.x, normalizedNext.y>>)>>]
           ELSE LET endPoint == normalizePoint(basePoint, result.B)
                    startPoint == normalizePoint(basePoint, result.A)
                IN  [point |-> nextPoint,
                     command |->
                       (IF isEqual(result.A, current) THEN <<>>
                        ELSE <<PathInstruction("M", <<startPoint.x, startPoint.y>>)>>)
                       \o <<PathInstruction("L", <<endPoint.x, endPoint.y>>)>>]
      ELSE [point |-> current, command |-> <<PathInstruction(command, params)>>]

\* handlePath(currentPoint, command, params), with the basePoint and svgRect
\* of its closure: the point where the next instruction starts and the new
\* instruction text.
handlePath(basePoint, rect, current, command, params) ==
  IF command \in {"m", "M"}
  THEN [point |-> Point(basePoint.x + params[1], basePoint.y + params[2]),
        command |-> <<PathInstruction(command, <<params[1], params[2]>>)>>]
  ELSE IF command \in {"l", "L"}
  THEN LET isLocalInstruction == command = "l"
           nextPoint ==
             Point((IF isLocalInstruction THEN current.x ELSE basePoint.x) + params[1],
                   (IF isLocalInstruction THEN current.y ELSE basePoint.y) + params[2])
           normalizedNext == normalizePoint(basePoint, nextPoint)
           result == getInnerSegment(current, nextPoint, rect)
           \* M${normalizedNext.x},${normalizedNext.y} or M${params[0]},${params[1]}
           moveToNext ==
             IF isLocalInstruction
             THEN PathInstruction("M", <<normalizedNext.x, normalizedNext.y>>)
             ELSE PathInstruction("M", <<params[1], params[2]>>)
       IN  IF result = Undefined
           THEN [point |-> nextPoint, command |-> <<moveToNext>>]
           ELSE LET isStartInside == isEqual(result.A, current)
                    isEndInside == isEqual(result.B, nextPoint)
                    endPoint == normalizePoint(basePoint, result.B)
                    startPoint == normalizePoint(basePoint, result.A)
                    startInstruction ==
                      IF isStartInside THEN <<>>
                      ELSE <<PathInstruction("M", <<startPoint.x, startPoint.y>>)>>
                    endInstruction == IF isEndInside THEN <<>> ELSE <<moveToNext>>
                IN  [point |-> nextPoint,
                     command |-> startInstruction
                                   \o <<PathInstruction("L", <<endPoint.x, endPoint.y>>)>>
                                   \o endInstruction]
  ELSE [point |-> current, command |-> <<PathInstruction(command, params)>>]

\* commands.map(...).join(' ')
RECURSIVE joinCommands(_)
joinCommands(texts) ==
  IF texts = <<>> THEN <<>> ELSE Head(texts) \o joinCommands(Tail(texts))

\* basePoint of the path runner
basePointOf(elt) == Point(elt.svgAttributes.x, elt.svgAttributes.y)

drawSvgPathCall(elt, texts) ==
  [op |-> "drawSvgPath", path |-> joinCommands(texts),
   x |-> elt.svgAttributes.x, y |-> elt.svgAttributes.y,
   borderColor |-> elt.svgAttributes.stroke, borderWidth |-> elt.svgAttributes.strokeWidth,
   borderOpacity |-> elt.svgAttributes.strokeOpacity,
   borderLineCap |-> elt.svgAttributes.strokeLineCap,
   color |-> elt.svgAttributes.fill, opacity |-> elt.svgAttributes.fillOpacity,
   scale |-> elt.svgAttributes.scale, rotate |-> elt.svgAttributes.rotate]

----------------------------------------------------------------------------
(* Specification SpecPath: the path runner on one path element.  The map     *)
(* over the commands takes one step per command; drawSvgPath follows.        *)

\* A path has at most MaxCommands commands.
MaxCommands == 2

PathVectors ==
  {<<Unit, 0>>, <<0, Unit>>, <<-Unit, -Unit>>, <<2 * Unit, Unit>>, <<3 * Unit, 3 * Unit>>}

PathCommands ==
  {PathInstruction(letter, v) : letter \in {"m", "M", "l", "L"}, v \in PathVectors}
    \cup {PathInstruction("h", <<Unit>>),
          PathInstruction("C", <<Unit, Unit, 2 * Unit, Unit, 2 * Unit, 2 * Unit>>)}

PathRects ==
  {Rectangle(Point(Unit, 2 * Unit), Point(2 * Unit, Unit)),
   Rectangle(Point(Unit, 2 * Unit), Point(3 * Unit, 0))}

PathElement(x, y, d) ==
  [tagName |-> "path",
   svgAttributes |->
     [x |-> x, y |-> y, d |-> d, stroke |-> Some("rgb(1,0,0)"), strokeWidth |-> Some(Unit),
      strokeOpacity |-> None, strokeLineCap |-> None, fill |-> None, fillOpacity |-> None,
      scale |-> None, rotate |-> None]]

\* The points the current point goes through, from `current` on.
RECURSIVE pathPoints(_, _, _, _)
pathPoints(basePoint, rect, current, d) ==
  IF d = <<>> THEN {current}
  ELSE {current} \cup
         pathPoints(basePoint, rect,
                    handlePath(basePoint, rect, current, Head(d).letter, Head(d).args).point,
                    Tail(d))

\* The path stays on the grid, where every quotient the clipper forms is exact.
OnGrid(elt, rect) ==
  \A p \in pathPoints(basePointOf(elt), rect, basePointOf(elt), elt.svgAttributes.d) :
     p.x \in GridCoords /\ p.y \in GridCoords

InitPath ==
  /\ pc = "path"
  /\ svgRect \in PathRects
  /\ \E n \in 1..MaxCommands : \E d \in [1..n -> PathCommands] :
     \E x \in {0, Unit}, y \in {0, Unit} :
       /\ element = PathElement(x, y, d)
       /\ OnGrid(PathElement(x, y, d), svgRect)
       /\ currentPoint = Point(x, y)
  /\ newPath = <<>>
  /\ line = Undefined
  /\ calls = <<>>
  /\ AttrIdle
  /\ DrawIdle
  /\ FitIdle

\* One call of the function given to commands.map.
HandlePath ==
  /\ pc = "path"
  /\ Len(newPath) < Len(element.svgAttributes.d)
  /\ LET command == element.svgAttributes.d[Len(newPath) + 1]
         result == handlePath(basePointOf(element), svgRect, currentPoint,
                              command.letter, command.args)
     IN  /\ currentPoint' = result.point
         /\ newPath' = Append(newPath, result.command)
  /\ UNCHANGED <<pc, svgRect, element, line, calls, attrVars, drawVars, fitVars>>

DrawSvgPath ==
  /\ pc = "path"
  /\ Len(newPath) = Len(element.svgAttributes.d)
  /\ calls' = Append(calls, drawSvgPathCall(element, newPath))
  /\ pc' = "done"
  /\ UNCHANGED <<svgRect, element, line, currentPoint, newPath, attrVars, drawVars, fitVars>>

NextPath == HandlePath \/ DrawSvgPath

SpecPath == InitPath /\ [][NextPath]_vars

----------------------------------------------------------------------------
(* Properties of the path rewriter (SpecPath).                               *)

\* The command a step of the map has just handled, and the segment it asks for.
Handled == element.svgAttributes.d[Len(newPath) + 1]
HandledEnd ==
  IF Handled.letter = "l"
  THEN Point(currentPoint.x + Handled.args[1], currentPoint.y + Handled.args[2])
  ELSE Point(basePointOf(element).x + Handled.args[1],
             basePointOf(element).y + Handled.args[2])
IsMapStep == pc = "path" /\ Len(newPath') = Len(newPath) + 1

\* C15: after every l or L command the current point is the original end of
\* the command (current point + params for l, path origin + params for L),
\* whether the segment was kept, shortened or dropped; commands other than
\* m, M, l, L leave the current point unchanged.
C15_CurrentPointIsOriginalEnd ==
  [][IsMapStep =>
       /\ Handled.letter \in {"l", "L"} => currentPoint' = HandledEnd
       /\ Handled.letter \notin {"m", "M", "l", "L"} => currentPoint' = currentPoint]_vars

\* An l command that starts inside the rectangle and ends outside it was
\* shortened, and a second relative command was handled after it.
C15_Witness ==
  /\ pc = "done"
  /\ Len(newPath) = 2
  /\ element.svgAttributes.d[1].letter = "l"
  /\ element.svgAttributes.d[2].letter = "l"
  /\ Len(newPath[1]) = 2
  /\ newPath[1][1].letter = "L" /\ newPath[1][2].letter = "M"
  /\ newPath[1][1].args # newPath[1][2].args
  /\ ~isCoordinateInsideTheRect(currentPoint, svgRect)

\* The text of a segment from s to e that meets the rectangle: a move to the
\* clipped start when s is outside, a line to the clipped end, a move to e
\* when e is outside (all relative to the path origin).
SegmentText(s, e) ==
  LET clipped == getInnerSegment(s, e, svgRect)
      base == basePointOf(element)
  IN  (IF isCoordinateInsideTheRect(s, svgRect) THEN <<>>
       ELSE <<PathInstruction("M", <<clipped.A.x - base.x, clipped.A.y - base.y>>)>>)
      \o <<PathInstruction("L", <<clipped.B.x - base.x, clipped.B.y - base.y>>)>>
      \o (IF isCoordinateInsideTheRect(e, svgRect) THEN <<>>
          ELSE <<PathInstruction("M", <<e.x - base.x, e.y - base.y>>)>>)

Meets(s, e) ==
  \/ getIntersections(svgRect, Segment(s, e)) # <<>>
  \/ isCoordinateInsideTheRect(s, svgRect) /\ isCoordinateInsideTheRect(e, svgRect)

\* C16: for an l or L command whose segment meets the rectangle the emitted
\* text is a move to the clipped start iff the start was outside, then one line
\* to the clipped end, then a move to the original end iff the end was outside;
\* a segment that is not shortened gives one line command and no move.
C16_EmittedText ==
  [][(IsMapStep /\ Handled.letter \in {"l", "L"} /\ Meets(currentPoint, HandledEnd)) =>
       /\ newPath'[Len(newPath')] = SegmentText(currentPoint, HandledEnd)
       /\ getInnerSegment(currentPoint, HandledEnd, svgRect)
            = Segment(currentPoint, HandledEnd) =>
            newPath'[Len(newPath')]
              = <<PathInstruction("L", <<HandledEnd.x - basePointOf(element).x,
                                         HandledEnd.y - basePointOf(element).y>>)>>]_vars

\* A segment that crosses the rectangle from outside to outside was rewritten
\* into a move, a line and a move.
C16_Witness ==
  /\ pc = "done"
  /\ \E k \in DOMAIN newPath :
       /\ element.svgAttributes.d[k].letter \in {"l", "L"}
       /\ Len(newPath[k]) = 3
       /\ newPath[k][1].letter = "M" /\ newPath[k][2].letter = "L"
       /\ newPath[k][3].letter = "M"
       /\ newPath[k][1].args # newPath[k][2].args

----------------------------------------------------------------------------
(* Unknown transform names (SpecShapes).                                     *)

HasUnknownTransform ==
  \E i \in 2..(Len(svg) - 1) :
     \E k \in DOMAIN parseTransformList(attr(svg[i].attributes, "transform")) :
        parseTransformList(attr(svg[i].attributes, "transform"))[k].name
          \notin KnownTransforms

\* C17: an instruction of unknown name is a no-op and never fatal: the shape
\* is resolved and drawn with the point and size mappings of the transform
\* lists without the unknown names.
C17_UnknownTransformNoOp ==
  pc = "returned" =>
     /\ Len(elements) = 1
     /\ elements[1].node = Len(svg)
     /\ Point(elements[1].svgAttributes.x, elements[1].svgAttributes.y) = ExpectedPoint(0, 0)
     /\ Shape.tagName \in {"circle", "ellipse"} =>
          LET centre == ExpectedPoint(Val(ShapeNumber("cx")), Val(ShapeNumber("cy")))
          IN  /\ elements[1].svgAttributes.cx = Some(centre.x)
              /\ elements[1].svgAttributes.cy = Some(centre.y)
              /\ Len(calls) = 1 /\ calls[1].call.op = "drawEllipse"
     /\ Shape.tagName = "ellipse" =>
          LET radii == ExpectedSize(Val(ShapeNumber("rx")), Val(ShapeNumber("ry")))
          IN  /\ calls[1].call.xScale = Some(radii.width)
              /\ calls[1].call.yScale = Some(radii.height)

\* An ellipse below a group whose transform list holds an unknown name before
\* a scale has been drawn.
C17_Witness ==
  /\ pc = "returned"
  /\ HasUnknownTransform
  /\ Shape.tagName = "ellipse"
  /\ Len(calls) = 1
  /\ calls[1].call.xScale # Some(Val(ShapeNumber("rx")))

----------------------------------------------------------------------------
(* Sibling independence (Spec).                                              *)

\* The markup as parse hands it to the walker.
Walked == [svg EXCEPT ![1] = rootElement(svg, options, PageSize)]

\* What node i resolves to when only the nodes above it are looked at: the
\* root against the page, any other node against what its parent produced.
RECURSIVE ResolvedAlone(_, _)
ResolvedAlone(doc, i) ==
  LET over == Ancestors(doc, i)
  IN  IF over = {}
      THEN parseAttributes(doc[i], sizeAsInherited(PageSize), defaultConverter(PageSize))
      ELSE LET above == ResolvedAlone(doc, CHOOSE a \in over : \A b \in over : b <= a)
           IN  parseAttributes(doc[i], above.inherited, above.converter)

\* C18: resolving a node leaves the inherited attributes and the converter it
\* was given as they were: every child of a group is resolved against what the
\* group produced, whatever siblings and subtrees were resolved before it.
\* Every element that drawSvg gets from parse carries what the chain of its
\* ancestors alone resolves to.
C18_SiblingsIndependent ==
  [][pc = "drawSvg" =>
       \A k \in DOMAIN elements' :
          elements'[k].svgAttributes = mergeAttributes(ResolvedAlone(Walked, elements'[k].node))]_vars

\* An image was resolved after a rect of the same group that sets a fill, and
\* has no fill.
C18_Witness ==
  /\ pc = "returned"
  /\ \E k, l \in DOMAIN elements :
       /\ l < k
       /\ elements[l].tagName = "rect" /\ elements[l].svgAttributes.fill # None
       /\ elements[k].tagName = "image" /\ elements[k].svgAttributes.fill = None
       /\ Ancestors(svg, elements[l].node) = Ancestors(svg, elements[k].node)

====
